---- MODULE Spec2Model ----
(***************************************************************************)
(* Reorder coordinator of the task-management backend.                     *)
(*                                                                         *)
(* OptionRepository.reorderOptions and TaskRepository.reorder rewrite the  *)
(* `order` column of a batch of rows inside one database transaction.      *)
(* The persistence layer is Prisma on PostgreSQL (READ COMMITTED): a       *)
(* transaction's writes are invisible until it commits, a written row is   *)
(* locked until the transaction ends, a writer of a locked row waits, and  *)
(* a cycle of waiting transactions is broken by aborting one of them.      *)
(***************************************************************************)
EXTENDS Integers, Sequences, FiniteSets, TLC

\* Longest id / order array of a request.
MaxLen == 2
\* Order values of a request are 1..MaxOrder.
MaxOrder == 2

\* Rows present in the option and task tables.
OptionRows == {"o1", "o2"}
TaskRows == {"t1", "t2"}
\* Ids a client may name: the rows and one id that references no row.
OptionIdSpace == OptionRows \cup {"ox"}
TaskIdSpace == TaskRows \cup {"tx"}

RoleTypes == {"AUTHOR", "MEMBER", "VIEWER"}

VARIABLES
    db,           \* committed tables: db.option, db.task : id -> order
    call,         \* the in-flight request of each slot
    commitOrder,  \* slots in the order their transactions committed
    query,        \* the task-listing call: its filters string and what came of it
    select,       \* one select's options and the create calls running against it
    backup,       \* the backup records and the run of BackupService.backup
    bulk,         \* the tasks of the companies and a bulkDelete call
    auth          \* a CompanyService call and its author check

vars == <<db, call, commitOrder, query, select, backup, bulk, auth>>

----------------------------------------------------------------------------
\* Helpers

SeqsUpTo(S, n) == UNION {[1..k -> S] : k \in 0..n}

OrderValues == 1..MaxOrder

Reverse(s) == [i \in 1..Len(s) |-> s[Len(s) + 1 - i]]

NoWrites == [x \in {} |-> 0]

NoError == [code |-> "none", id |-> "none"]

EmptyBody == [ids |-> <<>>, orders |-> <<>>]

IdleCall ==
    [pc |-> "idle", kind |-> "none", role |-> "none", roleChecked |-> FALSE,
     req |-> EmptyBody, body |-> EmptyBody, issued |-> <<>>, idx |-> 0,
     writes |-> NoWrites, pre |-> NoWrites, error |-> NoError,
     repeat |-> FALSE, after1 |-> NoWrites]

InFlight(c) == call[c].pc \in {"auth", "repo", "tx", "aborting"}
Finished(c) == call[c].pc \in {"resolved", "rejected"}

\* body.orders[index]: undefined (no value) past the end of the array.
OrderAt(orders, index) == IF index \in DOMAIN orders THEN {orders[index]} ELSE {}

\* class-validator on ReorderOptionsDto: arrays, every id a non-empty string,
\* every order a number.  Nothing constrains the lengths.
ReorderOptionsDto(ids, orders) ==
    /\ \A i \in DOMAIN ids : ids[i] # ""
    /\ \A i \in DOMAIN orders : orders[i] \in Int

----------------------------------------------------------------------------
\* The update statements a repository call builds

\* The task variant pairs the ids with the orders reversed in place.
TaskOrders_Straight(orders) == orders
TaskOrders(orders) == Reverse(orders)

\* The option variant pairs optionIds[i] with orders[i].
OptionOrders_Reversed(orders) == Reverse(orders)
OptionOrders(orders) == orders

\* A where clause that resolves to the other row of the table.
Statements_Sibling(ids, orders) ==
    [i \in 1..Len(ids) |->
        [id |-> CASE ids[i] = "o1" -> "o2" [] ids[i] = "t1" -> "t2" [] OTHER -> ids[i],
         data |-> OrderAt(orders, i)]]
Statements(ids, orders) ==
    [i \in 1..Len(ids) |-> [id |-> ids[i], data |-> OrderAt(orders, i)]]

\* A map that skips an id it has already seen.
FirstOccurrences(ids) == {i \in DOMAIN ids : \A j \in 1..(i - 1) : ids[j] # ids[i]}
RECURSIVE Pick(_, _, _)
Pick(s, keep, i) ==
    IF i > Len(s) THEN <<>>
    ELSE (IF i \in keep THEN <<s[i]>> ELSE <<>>) \o Pick(s, keep, i + 1)
OptionStatements_Dedup(body) ==
    Pick(Statements(body.ids, OptionOrders(body.orders)), FirstOccurrences(body.ids), 1)
OptionStatements(body) == Statements(body.ids, OptionOrders(body.orders))

TaskStatements(body) == Statements(body.ids, body.orders)

\* data: { order: v } sets the column; data: { order: undefined } leaves it.
UpdateData_Increment(current, data) ==
    IF data = {} THEN current ELSE current + (CHOOSE v \in data : TRUE)
UpdateData(current, data) ==
    IF data = {} THEN current ELSE CHOOSE v \in data : TRUE

\* The updates run on the transaction client (tx.option.update) / inside the
\* batch handed to $transaction, not on the auto-committing client.
OptionUpdateTransactional_Off == FALSE
OptionUpdateTransactional == TRUE
TaskUpdateTransactional_Off == FALSE
TaskUpdateTransactional == TRUE

Transactional(kind) ==
    IF kind = "option" THEN OptionUpdateTransactional ELSE TaskUpdateTransactional

\* The statements applied one after the other to a table (a serial run).
RECURSIVE ApplyAll(_, _, _)
ApplyAll(stmts, tbl, i) ==
    IF i > Len(stmts) THEN tbl
    ELSE ApplyAll(stmts,
                  [tbl EXCEPT ![stmts[i].id] = UpdateData(@, stmts[i].data)],
                  i + 1)

----------------------------------------------------------------------------
\* Init

\* Orders as OptionRepository.create hands them out: 1, 2, ...
CreatedOptions == ("o1" :> 1 @@ "o2" :> 2)
CreatedTasks == ("t1" :> 1 @@ "t2" :> 2)

\* Any orders earlier reorders may have left (ties and gaps are valid).
Tables ==
    {[option |-> t, task |-> CreatedTasks] : t \in [OptionRows -> OrderValues]}
    \cup {[option |-> CreatedOptions, task |-> t] : t \in [TaskRows -> OrderValues]}

\* No task listing and no option create is running while reorders are studied.
NoQuery == [pc |-> "none"]
NoSelect == [pc |-> "none"]

\* No backup run, no bulkDelete and no company call is in progress.
QuietServices ==
    /\ backup = [pc |-> "none"]
    /\ bulk = [pc |-> "none"]
    /\ auth = [pc |-> "none"]

Init ==
    /\ QuietServices
    /\ db \in Tables
    /\ call = [c \in {1, 2} |-> IdleCall]
    /\ commitOrder = <<>>
    /\ query = NoQuery
    /\ select = NoSelect

InitConc ==
    /\ QuietServices
    /\ db = [option |-> CreatedOptions, task |-> CreatedTasks]
    /\ call = [c \in {1, 2} |-> IdleCall]
    /\ commitOrder = <<>>
    /\ query = NoQuery
    /\ select = NoSelect

----------------------------------------------------------------------------
\* Bookkeeping shared by the entry points

OthersQuiet(c) == \A d \in DOMAIN call : d # c => ~InFlight(d)

----------------------------------------------------------------------------
\* Option reorder: controller -> service -> repository

\* The principal's selected role must be AUTHOR.
RoleAllowed(role) == role = "AUTHOR"

\* reorderOptions awaits validateUserRole and only then calls the repository.
OptionService_next_Unchecked(role) == "repo"
OptionService_next(role) == IF RoleAllowed(role) THEN "repo" ELSE "rejected"

StartOption(c, role, req, rep, after) ==
    /\ call' = [call EXCEPT ![c] =
                  [IdleCall EXCEPT !.pc = "auth", !.kind = "option", !.role = role,
                                   !.req = req, !.body = req,
                                   !.repeat = rep, !.after1 = after]]
    /\ UNCHANGED <<db, commitOrder, query, select, backup, bulk, auth>>

\* PUT option/reorder: the body passed the DTO validation.
OptionController_reorderOptions(c, role, ids, orders) ==
    /\ call[c].pc = "idle"
    /\ ReorderOptionsDto(ids, orders)
    /\ StartOption(c, role, [ids |-> ids, orders |-> orders], FALSE, NoWrites)

OptionService_reorderOptions(c) ==
    /\ call[c].pc = "auth"
    /\ LET next == OptionService_next(call[c].role) IN
       call' = [call EXCEPT ![c].pc = next,
                            ![c].roleChecked = TRUE,
                            ![c].error = IF next = "rejected"
                                         THEN [code |-> "Forbidden", id |-> "none"]
                                         ELSE NoError]
    /\ UNCHANGED <<db, commitOrder, query, select, backup, bulk, auth>>

\* Opens the interactive transaction and maps every id to an update.
OptionRepository_reorderOptions(c) ==
    /\ call[c].pc = "repo"
    /\ call[c].kind = "option"
    /\ call' = [call EXCEPT ![c].pc = "tx",
                            ![c].issued = OptionStatements(call[c].body),
                            ![c].idx = 0,
                            ![c].pre = db.option]
    /\ UNCHANGED <<db, commitOrder, query, select, backup, bulk, auth>>

----------------------------------------------------------------------------
\* Task reorder: repository

StartTask(c, req, rep, after) ==
    LET body == [ids |-> req.ids, orders |-> TaskOrders(req.orders)] IN
    /\ call' = [call EXCEPT ![c] =
                  [IdleCall EXCEPT !.pc = "tx", !.kind = "task",
                                   !.req = req, !.body = body,
                                   !.issued = TaskStatements(body),
                                   !.pre = db.task,
                                   !.repeat = rep, !.after1 = after]]
    /\ UNCHANGED <<db, commitOrder, query, select, backup, bulk, auth>>

\* Reverses body.orders in place and hands the batch of updates to $transaction.
TaskRepository_reorder(c, ids, orders) ==
    /\ call[c].pc = "idle"
    /\ StartTask(c, [ids |-> ids, orders |-> orders], FALSE, NoWrites)

----------------------------------------------------------------------------
\* The transaction

LockedByOther(c, kind, id) ==
    \E d \in DOMAIN call :
        d # c /\ call[d].kind = kind /\ call[d].pc \in {"tx", "aborting"}
              /\ id \in DOMAIN call[d].writes

\* The statement the transaction of c runs next.
NextStatement(c) == call[c].issued[call[c].idx + 1]

HasNext(c) == call[c].pc = "tx" /\ call[c].idx < Len(call[c].issued)

\* The next statement writes a row another transaction holds.
Blocked(c) ==
    /\ HasNext(c)
    /\ NextStatement(c).id \in DOMAIN db[call[c].kind]
    /\ NextStatement(c).data # {}
    /\ LockedByOther(c, call[c].kind, NextStatement(c).id)

\* One update of the batch: record not found, or the row is written.
ExecuteUpdate(c) ==
    /\ HasNext(c)
    /\ LET k == call[c].kind
           s == NextStatement(c)
           w == call[c].writes
       IN
       IF s.id \notin DOMAIN db[k]
       THEN /\ call' = [call EXCEPT ![c].pc = "aborting",
                                    ![c].error = [code |-> "NotFound", id |-> s.id]]
            /\ UNCHANGED db
       ELSE /\ ~Blocked(c)
            /\ LET current == IF s.id \in DOMAIN w THEN w[s.id] ELSE db[k][s.id]
                   value == UpdateData(current, s.data)
               IN
               IF s.data = {}
               THEN /\ call' = [call EXCEPT ![c].idx = @ + 1]
                    /\ UNCHANGED db
               ELSE IF Transactional(k)
               THEN /\ call' = [call EXCEPT
                                  ![c].idx = @ + 1,
                                  ![c].writes = [x \in DOMAIN w \cup {s.id} |->
                                                   IF x = s.id THEN value ELSE w[x]]]
                    /\ UNCHANGED db
               ELSE /\ call' = [call EXCEPT ![c].idx = @ + 1]
                    /\ db' = [db EXCEPT ![k][s.id] = value]
    /\ UNCHANGED <<commitOrder, query, select, backup, bulk, auth>>

\* Two transactions wait for each other's row: the database aborts one.
DeadlockAbort(c) ==
    /\ Blocked(c)
    /\ \E d \in DOMAIN call :
          /\ d # c
          /\ Blocked(d)
          /\ call[d].kind = call[c].kind
          /\ NextStatement(c).id \in DOMAIN call[d].writes
          /\ NextStatement(d).id \in DOMAIN call[c].writes
    /\ call' = [call EXCEPT ![c].pc = "aborting",
                            ![c].error = [code |-> "Deadlock", id |-> NextStatement(c).id]]
    /\ UNCHANGED <<db, commitOrder, query, select, backup, bulk, auth>>

\* The rejection reaches the transaction: uncommitted writes are discarded.
\* The task variant rethrows as "Failed to reorder tasks: ...".
Rollback(c) ==
    /\ call[c].pc = "aborting"
    /\ call' = [call EXCEPT ![c].pc = "rejected",
                            ![c].writes = NoWrites,
                            ![c].error = IF call[c].kind = "task"
                                         THEN [code |-> "FailedToReorderTasks", id |-> @.id]
                                         ELSE @]
    /\ UNCHANGED <<db, commitOrder, query, select, backup, bulk, auth>>

\* Every update succeeded: the writes become visible together.  The task
\* variant then reads taskId[0], which throws when taskId is empty.
Commit(c) ==
    /\ call[c].pc = "tx"
    /\ call[c].idx = Len(call[c].issued)
    /\ LET k == call[c].kind
           w == call[c].writes
           nothingToFind == k = "task" /\ Len(call[c].body.ids) = 0
       IN
       /\ db' = [db EXCEPT ![k] = [r \in DOMAIN @ |-> IF r \in DOMAIN w THEN w[r] ELSE @[r]]]
       /\ call' = [call EXCEPT ![c].pc = IF nothingToFind THEN "rejected" ELSE "resolved",
                               ![c].writes = NoWrites,
                               ![c].error = IF nothingToFind
                                            THEN [code |-> "Validation", id |-> "none"]
                                            ELSE NoError]
    /\ commitOrder' = Append(commitOrder, c)
    /\ UNCHANGED <<query, select, backup, bulk, auth>>

----------------------------------------------------------------------------
\* The caller

\* The same request is sent again right after the first answer.
Repeat(c) ==
    /\ Finished(c)
    /\ ~call[c].repeat
    /\ OthersQuiet(c)
    /\ IF call[c].kind = "option"
       THEN StartOption(c, call[c].role, call[c].req, TRUE, db.option)
       ELSE StartTask(c, call[c].req, TRUE, db.task)

----------------------------------------------------------------------------
\* Specifications

\* Any request a client can send.
ClientOptionRequest(c) ==
    /\ call[c].pc = "idle"
    /\ \E role \in RoleTypes, ids \in SeqsUpTo(OptionIdSpace, MaxLen),
          orders \in SeqsUpTo(OrderValues, MaxLen) :
            OptionController_reorderOptions(c, role, ids, orders)

ClientTaskRequest(c) ==
    /\ call[c].pc = "idle"
    /\ \E ids \in SeqsUpTo(TaskIdSpace, MaxLen),
          orders \in SeqsUpTo(OrderValues, MaxLen) :
            TaskRepository_reorder(c, ids, orders)

\* One request at a time.
Next ==
    \E c \in {1} :
        \/ ClientOptionRequest(c)
        \/ OptionService_reorderOptions(c)
        \/ OptionRepository_reorderOptions(c)
        \/ ClientTaskRequest(c)
        \/ ExecuteUpdate(c)
        \/ Rollback(c)
        \/ Commit(c)
        \/ Repeat(c)

Spec == Init /\ [][Next]_vars

\* Requests as the drag-and-drop client builds them: non-empty, equal lengths,
\* ids of existing rows, the positions 1..n in some arrangement, sent by an
\* author.
ContractIds(rows) == SeqsUpTo(rows, MaxLen) \ {<<>>}
ContractOrders(ids) ==
    {f \in [1..Len(ids) -> 1..Len(ids)] : \A i, j \in 1..Len(ids) : f[i] = f[j] => i = j}

\* Slots are numbered in arrival order; the second request targets the table
\* of the first one.
Arrives(c, kind) == call[c].pc = "idle" /\ (c = 1 \/ call[1].kind = kind)

ContractOptionRequest(c) ==
    /\ Arrives(c, "option")
    /\ \E ids \in ContractIds(OptionRows) : \E orders \in ContractOrders(ids) :
            OptionController_reorderOptions(c, "AUTHOR", ids, orders)

ContractTaskRequest(c) ==
    /\ Arrives(c, "task")
    /\ \E ids \in ContractIds(TaskRows) : \E orders \in ContractOrders(ids) :
            TaskRepository_reorder(c, ids, orders)

\* Two requests at a time.
NextConc ==
    \E c \in {1, 2} :
        \/ ContractOptionRequest(c)
        \/ OptionService_reorderOptions(c)
        \/ OptionRepository_reorderOptions(c)
        \/ ContractTaskRequest(c)
        \/ ExecuteUpdate(c)
        \/ DeadlockAbort(c)
        \/ Rollback(c)
        \/ Commit(c)

SpecConc == InitConc /\ [][NextConc]_vars

----------------------------------------------------------------------------
\* Properties

Slots == DOMAIN call

IdsOf(s) == {s[i] : i \in DOMAIN s}

Distinct(s) == \A i, j \in DOMAIN s : s[i] = s[j] => i = j

LastIndex(s, x) == CHOOSE i \in DOMAIN s : s[i] = x /\ \A j \in DOMAIN s : s[j] = x => j <= i

\* Indexes of the statements that name no row of the table.
Failing(stmts, tbl) == {i \in DOMAIN stmts : stmts[i].id \notin DOMAIN tbl}

FirstFailingId(stmts, tbl) ==
    stmts[CHOOSE i \in Failing(stmts, tbl) : \A j \in Failing(stmts, tbl) : i <= j].id

\* C1: when an update of an option reorder fails, the call never resolves, it
\* rejects with the error of that update, and the persisted option orders
\* are those from before the call, also for the updates that ran first.
C1_OptionReorderAllOrNothing ==
    \A c \in Slots :
        (call[c].kind = "option" /\ Failing(call[c].issued, db.option) # {})
        => /\ call[c].pc \in {"tx", "aborting", "rejected"}
           /\ db.option = call[c].pre
           /\ call[c].pc = "rejected"
              => call[c].error = [code |-> "NotFound",
                                  id |-> FirstFailingId(call[c].issued, db.option)]

\* An update that changed a row ran before the failing one and was undone.
C1_Witness ==
    \E c \in Slots :
        /\ call[c].kind = "option"
        /\ call[c].pc = "rejected"
        /\ call[c].error.code = "NotFound"
        /\ call[c].idx >= 1
        /\ call[c].issued[1].data # {}
        /\ call[c].issued[1].data # {call[c].pre[call[c].issued[1].id]}

\* C2: after a successful option reorder with n >= 1 pairwise distinct
\* existing ids and n orders, option optionIds[i] has order orders[i], and
\* exactly n updates were issued, the i-th being (optionIds[i], orders[i]).
C2_OptionPositionalPairing ==
    \A c \in Slots :
        LET ids == call[c].req.ids
            orders == call[c].req.orders
        IN
        (/\ call[c].kind = "option"
         /\ call[c].pc = "resolved"
         /\ Len(ids) >= 1
         /\ Len(ids) = Len(orders)
         /\ Distinct(ids)
         /\ IdsOf(ids) \subseteq DOMAIN db.option)
        => /\ \A i \in DOMAIN ids : db.option[ids[i]] = orders[i]
           /\ Len(call[c].issued) = Len(ids)
           /\ \A i \in DOMAIN ids :
                 call[c].issued[i] = [id |-> ids[i], data |-> {orders[i]}]

\* Two rows received two different orders, and the table changed.
C2_Witness ==
    \E c \in Slots :
        /\ call[c].kind = "option"
        /\ call[c].pc = "resolved"
        /\ Len(call[c].req.ids) = 2
        /\ Len(call[c].req.orders) = 2
        /\ Distinct(call[c].req.ids)
        /\ call[c].req.orders[1] # call[c].req.orders[2]
        /\ db.option # call[c].pre

IllFormed(req) == Len(req.ids) = 0 \/ Len(req.ids) # Len(req.orders)

\* C3: an option reorder request whose arrays are empty or differ in length
\* ends in an error, and no update is issued for it.
C3_IllFormedRejected ==
    \A c \in Slots :
        (call[c].kind = "option" /\ IllFormed(call[c].req))
        => /\ call[c].issued = <<>>
           /\ call[c].pc # "resolved"

C5_TaskReorderAllOrNothing ==
    \A c \in Slots :
        (call[c].kind = "task" /\ Failing(call[c].issued, db.task) # {})
        => /\ call[c].pc \in {"tx", "aborting", "rejected"}
           /\ db.task = call[c].pre
           /\ call[c].pc = "rejected"
              => call[c].error = [code |-> "FailedToReorderTasks",
                                  id |-> FirstFailingId(call[c].issued, db.task)]

\* An update that changed a task ran before the failing one and was undone.
C5_Witness ==
    \E c \in Slots :
        /\ call[c].kind = "task"
        /\ call[c].pc = "rejected"
        /\ call[c].error.code = "FailedToReorderTasks"
        /\ call[c].idx >= 1
        /\ call[c].issued[1].data # {}
        /\ call[c].issued[1].data # {call[c].pre[call[c].issued[1].id]}

\* C6: after a successful task reorder with n pairwise distinct existing ids
\* and n orders, task taskId[i] has order orders[n-1-i] (0-based), with
\* orders as the caller supplied it.
C6_TaskReversedPairing ==
    \A c \in Slots :
        LET ids == call[c].req.ids
            orders == call[c].req.orders
            n == Len(ids)
        IN
        (/\ call[c].kind = "task"
         /\ call[c].pc = "resolved"
         /\ Len(orders) = n
         /\ Distinct(ids)
         /\ IdsOf(ids) \subseteq DOMAIN db.task)
        => \A i \in DOMAIN ids : db.task[ids[i]] = orders[n + 1 - i]

\* Two tasks received two different orders, crosswise.
C6_Witness ==
    \E c \in Slots :
        /\ call[c].kind = "task"
        /\ call[c].pc = "resolved"
        /\ Len(call[c].req.ids) = 2
        /\ Len(call[c].req.orders) = 2
        /\ Distinct(call[c].req.ids)
        /\ call[c].req.orders[1] # call[c].req.orders[2]
        /\ db.task[call[c].req.ids[1]] = call[c].req.orders[2]
        /\ db.task # call[c].pre

\* The order a transaction's statements leave on a row they write.
LastOrder(stmts, id) ==
    CHOOSE v \in stmts[LastIndex([i \in DOMAIN stmts |-> stmts[i].id], id)].data : TRUE

\* C7: when two concurrent reorder transactions have both committed, every
\* row both of them name holds the order written by the one that committed
\* last, and the table is the one a serial run in commit order produces.
C7_LastCommittedWins ==
    \A a, b \in Slots :
        (/\ commitOrder = <<a, b>>
         /\ a # b
         /\ call[a].pc = "resolved"
         /\ call[b].pc = "resolved")
        => LET k == call[b].kind
               first == ApplyAll(call[a].issued, call[a].pre, 1)
           IN
           /\ db[k] = ApplyAll(call[b].issued, first, 1)
           /\ \A id \in IdsOf(call[a].req.ids) \cap IdsOf(call[b].req.ids) :
                 db[k][id] = LastOrder(call[b].issued, id)

\* The later committer began before the earlier one committed, the earlier
\* one changed the table, and they wrote different orders to a shared row.
C7_Witness ==
    \E a, b \in Slots :
        /\ commitOrder = <<a, b>>
        /\ a # b
        /\ call[a].pc = "resolved"
        /\ call[b].pc = "resolved"
        /\ call[b].pre = call[a].pre
        /\ ApplyAll(call[a].issued, call[a].pre, 1) # call[a].pre
        /\ \E id \in IdsOf(call[a].req.ids) \cap IdsOf(call[b].req.ids) :
              LastOrder(call[a].issued, id) # LastOrder(call[b].issued, id)

\* C8: an id that occurs more than once in optionIds gets one update per
\* occurrence, in index order, and after a successful call its order is the
\* entry of orders paired with its last occurrence.
C8_DuplicateIdsLastWriteWins ==
    \A c \in Slots :
        LET ids == call[c].req.ids
            orders == call[c].req.orders
        IN
        (call[c].kind = "option" /\ call[c].pc = "resolved" /\ ~Distinct(ids))
        => /\ Len(call[c].issued) = Len(ids)
           /\ \A i \in DOMAIN ids :
                 call[c].issued[i] = [id |-> ids[i], data |-> OrderAt(orders, i)]
           /\ \A id \in IdsOf(ids) :
                 LastIndex(ids, id) \in DOMAIN orders
                 => db.option[id] = orders[LastIndex(ids, id)]

\* The same option was named twice with two different orders.
C8_Witness ==
    \E c \in Slots :
        /\ call[c].kind = "option"
        /\ call[c].pc = "resolved"
        /\ Len(call[c].req.ids) = 2
        /\ call[c].req.ids[1] = call[c].req.ids[2]
        /\ Len(call[c].req.orders) = 2
        /\ call[c].req.orders[1] # call[c].req.orders[2]
        /\ db.option[call[c].req.ids[1]] = call[c].req.orders[2]

\* C9: an option reorder sent a second time with the same optionIds and
\* orders leaves the option orders the first call left.
C9_OptionReorderIdempotent ==
    \A c \in Slots :
        (call[c].kind = "option" /\ call[c].repeat /\ Finished(c))
        => db.option = call[c].after1

\* The repeated call ran its updates and committed.
C9_Witness ==
    \E c \in Slots :
        /\ call[c].kind = "option"
        /\ call[c].repeat
        /\ call[c].pc = "resolved"
        /\ call[c].idx = 2
        /\ \A i \in DOMAIN call[c].issued : call[c].issued[i].data # {}

----------------------------------------------------------------------------
\* Text and JavaScript values
\*
\* A string is the sequence of its characters.  The characters that occur are
\* letters, digits, the space and the punctuation of the filter syntax; the
\* backslash, other white space, and the '.', '+' of number syntax never occur.

Quote == "\""

LowerCase == <<"a", "b", "c", "d", "e", "f", "g", "h", "i", "j", "k", "l", "m", "n", "o", "p", "q", "r", "s", "t", "u", "v", "w", "x", "y", "z">>
UpperCase == <<"A", "B", "C", "D", "E", "F", "G", "H", "I", "J", "K", "L", "M", "N", "O", "P", "Q", "R", "S", "T", "U", "V", "W", "X", "Y", "Z">>
Digits == <<"0", "1", "2", "3", "4", "5", "6", "7", "8", "9">>

\* \w, \d and \s of the regular expressions.
WordChars ==
    {LowerCase[i] : i \in DOMAIN LowerCase} \cup {UpperCase[i] : i \in DOMAIN UpperCase}
    \cup {Digits[i] : i \in DOMAIN Digits} \cup {"_"}
DigitChars == {Digits[i] : i \in DOMAIN Digits}
IsSpaceChar(c) == c = " "

toLowerCase(s) ==
    [i \in DOMAIN s |->
        IF \E k \in DOMAIN UpperCase : UpperCase[k] = s[i]
        THEN LowerCase[CHOOSE k \in DOMAIN UpperCase : UpperCase[k] = s[i]]
        ELSE s[i]]

startsWith(s, prefix) ==
    Len(s) >= Len(prefix) /\ SubSeq(s, 1, Len(prefix)) = prefix

\* The first index from i on that holds no white space (Len(s) + 1 if none).
SkipSpaces(s, i) ==
    CHOOSE j \in i..(Len(s) + 1) :
        /\ j > Len(s) \/ ~IsSpaceChar(s[j])
        /\ \A k \in i..(j - 1) : IsSpaceChar(s[k])

\* s.trim(): from the first to the last character that is no white space.
trim(s) ==
    LET last == IF \A k \in DOMAIN s : IsSpaceChar(s[k]) THEN 0
                ELSE CHOOSE j \in DOMAIN s :
                        /\ ~IsSpaceChar(s[j])
                        /\ \A k \in (j + 1)..Len(s) : IsSpaceChar(s[k])
    IN SubSeq(s, SkipSpaces(s, 1), last)

\* The first index from i on that holds c (0 if none).
IndexOf(s, c, i) ==
    IF \E j \in i..Len(s) : s[j] = c
    THEN CHOOSE j \in i..Len(s) : s[j] = c /\ \A k \in i..(j - 1) : s[k] # c
    ELSE 0

\* The first index from i on that holds no word character.
SkipWord(s, i) ==
    CHOOSE j \in i..(Len(s) + 1) :
        /\ j > Len(s) \/ s[j] \notin WordChars
        /\ \A k \in i..(j - 1) : s[k] \in WordChars

\* JavaScript values carry their type, and each type its own field; NaN is a
\* value.
JSNull == [t |-> "null"]
JSUndefined == [t |-> "undefined"]
NaN == [t |-> "nan"]
JSString(s) == [t |-> "str", s |-> s]
JSNumber(n) == [t |-> "num", n |-> n]
JSBoolean(b) == [t |-> "bool", b |-> b]
JSArray(elements) == [t |-> "arr", items |-> elements]
\* An object is its entries [k, v] in insertion order, keys distinct.
JSObject(entries) == [t |-> "obj", entries |-> entries]

ObjHas(entries, key) == \E i \in DOMAIN entries : entries[i].k = key

ObjGet(entries, key) ==
    IF ObjHas(entries, key)
    THEN entries[CHOOSE i \in DOMAIN entries : entries[i].k = key].v
    ELSE JSUndefined

\* obj[key] = value: an existing key keeps its place.
ObjSet(entries, key, value) ==
    IF ObjHas(entries, key)
    THEN [i \in DOMAIN entries |->
            IF entries[i].k = key THEN [k |-> key, v |-> value] ELSE entries[i]]
    ELSE Append(entries, [k |-> key, v |-> value])

\* delete obj[key]
ObjDelete(entries, key) == SelectSeq(entries, LAMBDA e : e.k # key)

\* { ...a, ...b }
RECURSIVE ObjSpread(_, _, _)
ObjSpread(a, b, i) ==
    IF i > Len(b) THEN a ELSE ObjSpread(ObjSet(a, b[i].k, b[i].v), b, i + 1)

\* The decimal digits of a natural number.
RECURSIVE NatToString(_)
NatToString(n) ==
    IF n < 10 THEN <<Digits[n + 1]>>
    ELSE Append(NatToString(n \div 10), Digits[(n % 10) + 1])

RECURSIVE Join(_, _)
Join(texts, i) ==
    IF i > Len(texts) THEN <<>>
    ELSE (IF i > 1 THEN <<",">> ELSE <<>>) \o texts[i] \o Join(texts, i + 1)

\* String(value): an array joins its elements' strings with ',', null and
\* undefined elements giving ''.
RECURSIVE String(_)
String(value) ==
    CASE value.t = "str" -> value.s
      [] value.t = "num" -> IF value.n < 0 THEN <<"-">> \o NatToString(0 - value.n)
                            ELSE NatToString(value.n)
      [] value.t = "nan" -> <<"N", "a", "N">>
      [] value.t = "bool" -> IF value.b THEN <<"t", "r", "u", "e">> ELSE <<"f", "a", "l", "s", "e">>
      [] value.t = "null" -> <<"n", "u", "l", "l">>
      [] value.t = "undefined" -> <<"u", "n", "d", "e", "f", "i", "n", "e", "d">>
      [] value.t = "arr" ->
            Join([i \in DOMAIN value.items |->
                    IF value.items[i].t \in {"null", "undefined"} THEN <<>>
                    ELSE String(value.items[i])], 1)
      [] OTHER -> <<"[", "o", "b", "j", "e", "c", "t", " ", "O", "b", "j", "e", "c", "t", "]">>

\* The value of a run of digits s[i..j].
RECURSIVE DigitsValue(_, _, _)
DigitsValue(s, i, j) ==
    IF j < i THEN 0 ELSE 10 * DigitsValue(s, i, j - 1) + (CHOOSE d \in 0..9 : Digits[d + 1] = s[j])

AllDigits(s, i, j) == i <= j /\ \A k \in i..j : s[k] \in DigitChars

\* Number(value); of a text: white space is trimmed, '' is 0, an optionally signed run of
\* digits is its value, anything else in this alphabet is NaN.
Number(value) ==
    CASE value.t = "num" -> value
      [] value.t = "nan" -> NaN
      [] value.t = "bool" -> JSNumber(IF value.b THEN 1 ELSE 0)
      [] value.t = "null" -> JSNumber(0)
      [] value.t = "undefined" -> NaN
      [] OTHER ->
            LET w == trim(String(value)) IN
            IF w = <<>> THEN JSNumber(0)
            ELSE IF AllDigits(w, 1, Len(w)) THEN JSNumber(DigitsValue(w, 1, Len(w)))
            ELSE IF w[1] = "-" /\ AllDigits(w, 2, Len(w))
            THEN JSNumber(0 - DigitsValue(w, 2, Len(w)))
            ELSE NaN

\* Boolean(value): false, 0, NaN, '', null and undefined are falsy; every
\* other value, the strings "false" and "0" included, is truthy.
Boolean(value) ==
    JSBoolean(~ \/ value.t = "bool" /\ ~value.b
                \/ value.t = "num" /\ value.n = 0
                \/ value.t = "nan"
                \/ value.t = "str" /\ value.s = <<>>
                \/ value.t \in {"null", "undefined"})

\* new Date(value): a number is a time value; a string is parsed, and the
\* strings that occur are ISO dates (yyyy or yyyy-mm-dd, the formats every
\* engine must accept) or not dates in any engine.  An Invalid Date is a
\* value whose getTime() is NaN.
NewDate(value) ==
    LET s == String(value)
        iso == \/ Len(s) = 4 /\ AllDigits(s, 1, 4)
               \/ /\ Len(s) = 10 /\ AllDigits(s, 1, 4) /\ s[5] = "-"
                  /\ AllDigits(s, 6, 7) /\ s[8] = "-" /\ AllDigits(s, 9, 10)
                  /\ DigitsValue(s, 6, 7) \in 1..12 /\ DigitsValue(s, 9, 10) \in 1..31
    IN
    CASE value.t \in {"num", "bool", "null"} -> [t |-> "date", time |-> Number(value)]
      [] value.t \in {"nan", "undefined", "obj"} -> [t |-> "invalid date"]
      [] OTHER -> IF iso THEN [t |-> "date", time |-> JSString(s)]
                  ELSE [t |-> "invalid date"]

----------------------------------------------------------------------------
\* JSON.parse
\*
\* The grammar of JSON over the characters that occur: objects, arrays,
\* strings without escapes, integers, true, false, null, white space between
\* tokens.  A parser step answers [ok, val, next]: the value read and the
\* index after it.

SyntaxError == [ok |-> FALSE]
Parsed(value, next) == [ok |-> TRUE, val |-> value, next |-> next]

ParseString(s, i) ==
    IF i > Len(s) \/ s[i] # Quote THEN SyntaxError
    ELSE LET close == IndexOf(s, Quote, i + 1) IN
         IF close = 0 THEN SyntaxError
         ELSE Parsed(JSString(SubSeq(s, i + 1, close - 1)), close + 1)

ParseLiteral(s, i, word, value) ==
    IF i + Len(word) - 1 <= Len(s) /\ SubSeq(s, i, i + Len(word) - 1) = word
    THEN Parsed(value, i + Len(word))
    ELSE SyntaxError

RECURSIVE ParseValue(_, _)
RECURSIVE ParseElements(_, _, _)
RECURSIVE ParseMembers(_, _, _)

\* The value that starts at index i.
ParseValue(s, i) ==
    IF i > Len(s) THEN SyntaxError
    ELSE CASE s[i] = "{" ->
                LET j == SkipSpaces(s, i + 1) IN
                IF j <= Len(s) /\ s[j] = "}" THEN Parsed(JSObject(<<>>), j + 1)
                ELSE ParseMembers(s, j, <<>>)
           [] s[i] = "[" ->
                LET j == SkipSpaces(s, i + 1) IN
                IF j <= Len(s) /\ s[j] = "]" THEN Parsed(JSArray(<<>>), j + 1)
                ELSE ParseElements(s, j, <<>>)
           [] s[i] = Quote -> ParseString(s, i)
           [] s[i] = "-" \/ s[i] \in DigitChars ->
                \* -? (0 | [1-9][0-9]*)
                LET first == IF s[i] = "-" THEN i + 1 ELSE i
                    stop == IF first <= Len(s) /\ s[first] = "0" THEN first + 1
                            ELSE SkipWord(s, first)
                IN
                IF first > Len(s) \/ ~AllDigits(s, first, stop - 1) THEN SyntaxError
                ELSE Parsed(JSNumber((IF first > i THEN -1 ELSE 1)
                                     * DigitsValue(s, first, stop - 1)), stop)
           [] s[i] = "t" -> ParseLiteral(s, i, <<"t", "r", "u", "e">>, JSBoolean(TRUE))
           [] s[i] = "f" -> ParseLiteral(s, i, <<"f", "a", "l", "s", "e">>, JSBoolean(FALSE))
           [] s[i] = "n" -> ParseLiteral(s, i, <<"n", "u", "l", "l">>, JSNull)
           [] OTHER -> SyntaxError

\* value (',' value)* ']'
ParseElements(s, i, acc) ==
    LET e == ParseValue(s, i) IN
    IF ~e.ok THEN SyntaxError
    ELSE LET j == SkipSpaces(s, e.next)
             elements == Append(acc, e.val)
         IN
         IF j > Len(s) THEN SyntaxError
         ELSE IF s[j] = "]" THEN Parsed(JSArray(elements), j + 1)
         ELSE IF s[j] = "," THEN ParseElements(s, SkipSpaces(s, j + 1), elements)
         ELSE SyntaxError

\* string ':' value (',' string ':' value)* '}'; a repeated key keeps its
\* place and takes the later value.
ParseMembers(s, i, acc) ==
    LET key == ParseString(s, i) IN
    IF ~key.ok THEN SyntaxError
    ELSE LET colon == SkipSpaces(s, key.next) IN
         IF colon > Len(s) \/ s[colon] # ":" THEN SyntaxError
         ELSE LET m == ParseValue(s, SkipSpaces(s, colon + 1)) IN
              IF ~m.ok THEN SyntaxError
              ELSE LET j == SkipSpaces(s, m.next)
                       entries == ObjSet(acc, key.val.s, m.val)
                   IN
                   IF j > Len(s) THEN SyntaxError
                   ELSE IF s[j] = "}" THEN Parsed(JSObject(entries), j + 1)
                   ELSE IF s[j] = "," THEN ParseMembers(s, SkipSpaces(s, j + 1), entries)
                   ELSE SyntaxError

\* JSON.parse(text): one value and nothing but white space around it.
JSON_parse(text) ==
    LET r == ParseValue(text, SkipSpaces(text, 1)) IN
    IF r.ok /\ SkipSpaces(text, r.next) > Len(text) THEN r ELSE SyntaxError

\* Object.keys(value): the indices of an array or a string, the keys of an
\* object, none for a number or a boolean.  null and undefined throw, which
\* the caller tests first.
Object_keys(value) ==
    CASE value.t = "obj" -> [i \in DOMAIN value.entries |-> value.entries[i].k]
      [] value.t = "arr" -> [i \in DOMAIN value.items |-> NatToString(i - 1)]
      [] value.t = "str" -> [i \in DOMAIN value.s |-> NatToString(i - 1)]
      [] OTHER -> <<>>

----------------------------------------------------------------------------
\* TaskRepository.validateFilters and getTasksBySheet

\* The operators of a predicate.
In(list) == [t |-> "in", list |-> list]
Equals(value) == [t |-> "equals", value |-> value]
ContainsInsensitive(value) == [t |-> "contains", value |-> value, mode |-> "insensitive"]
Some(id) == [t |-> "some", id |-> id]

\* normalizedFilters[key.toLowerCase()] = parsedFilters[key], key by key.
NormalizedKey_AsWritten(key) == key
NormalizedKey(key) == toLowerCase(key)

RECURSIVE NormalizeKeys(_, _, _, _)
NormalizeKeys(parsed, keys, i, acc) ==
    IF i > Len(keys) THEN acc
    ELSE LET key == keys[i]
             index == DigitsValue(key, 1, Len(key)) + 1
             \* parsedFilters[key] for a key that Object.keys gave
             member == CASE parsed.t = "obj" -> ObjGet(parsed.entries, key)
                         [] parsed.t = "arr" -> parsed.items[index]
                         [] parsed.t = "str" -> JSString(<<parsed.s[index]>>)
                         [] OTHER -> JSUndefined
         IN NormalizeKeys(parsed, keys, i + 1, ObjSet(acc, NormalizedKey(key), member))

IsBlank_Falsy(value) == ~Boolean(value).b
IsBlank(value) ==
    value.t \in {"null", "undefined"} \/ (value.t = "str" /\ value.s = <<>>)

\* value.filter((v) => v !== null && v !== undefined && v !== '')
ValidValues_Unfiltered(list) == list
ValidValues(list) == SelectSeq(list, LAMBDA v : ~IsBlank(v))

\* status, priority, links, members, select*: a list becomes a membership
\* test or the key goes; anything else is an exact match.
ListRule(obj, key, value) ==
    IF value.t = "arr"
    THEN IF Len(ValidValues(value.items)) > 0
         THEN ObjSet(obj, key, In(ValidValues(value.items)))
         ELSE ObjDelete(obj, key)
    ELSE ObjSet(obj, key, Equals(value))

\* price, number*
NumberRule_Unchecked(obj, key, value) == ObjSet(obj, key, Equals(Number(value)))
NumberRule(obj, key, value) ==
    LET numValue == Number(value) IN
    IF numValue.t # "nan" THEN ObjSet(obj, key, Equals(numValue))
    ELSE ObjDelete(obj, key)

\* date*, and a duedate* that is not a list
DateRule(obj, key, value) ==
    IF NewDate(value).t = "date" THEN ObjSet(obj, key, Equals(NewDate(value)))
    ELSE ObjDelete(obj, key)

\* duedate*
DueDateRule(obj, key, value) ==
    IF value.t = "arr"
    THEN LET given == ValidValues(value.items)
             validDates == SelectSeq([i \in DOMAIN given |-> NewDate(given[i])],
                                     LAMBDA d : d.t = "date")
         IN IF Len(validDates) > 0 THEN ObjSet(obj, key, In(validDates))
            ELSE ObjDelete(obj, key)
    ELSE DateRule(obj, key, value)

\* The body of the forEach over the normalized keys.
FilterRule(obj, key) ==
    LET value == ObjGet(obj, key) IN
    IF IsBlank(value) THEN ObjDelete(obj, key)
    ELSE IF key = <<"n", "a", "m", "e">> THEN ObjSet(obj, key, ContainsInsensitive(value))
    ELSE IF key = <<"s", "t", "a", "t", "u", "s">> \/ key = <<"p", "r", "i", "o", "r", "i", "t", "y">> THEN ListRule(obj, key, value)
    ELSE IF key = <<"l", "i", "n", "k", "s">> THEN ListRule(obj, key, value)
    ELSE IF key = <<"p", "r", "i", "c", "e">> THEN NumberRule(obj, key, value)
    ELSE IF key = <<"p", "a", "i", "d">> THEN ObjSet(obj, key, Equals(Boolean(value)))
    ELSE IF key = <<"m", "e", "m", "b", "e", "r", "s">> THEN ListRule(obj, key, value)
    ELSE IF startsWith(key, <<"t", "e", "x", "t">>) THEN ObjSet(obj, key, ContainsInsensitive(value))
    ELSE IF startsWith(key, <<"n", "u", "m", "b", "e", "r">>) THEN NumberRule(obj, key, value)
    ELSE IF startsWith(key, <<"c", "h", "e", "c", "k", "b", "o", "x">>) THEN ObjSet(obj, key, Equals(Boolean(value)))
    ELSE IF startsWith(key, <<"s", "e", "l", "e", "c", "t">>) THEN ListRule(obj, key, value)
    ELSE IF startsWith(key, <<"d", "a", "t", "e">>) THEN DateRule(obj, key, value)
    ELSE IF startsWith(key, <<"d", "u", "e", "d", "a", "t", "e">>) THEN DueDateRule(obj, key, value)
    ELSE obj

RECURSIVE ApplyRules(_, _, _)
ApplyRules(obj, keys, i) ==
    IF i > Len(keys) THEN obj ELSE ApplyRules(FilterRule(obj, keys[i]), keys, i + 1)

\* What the catch block returns.
EmptyPredicate == <<>>

\* TaskRepository.validateFilters: the entries of the predicate it returns.
\* JSON.parse throws on text that is not JSON and Object.keys on null; the
\* catch block answers both.
TaskRepository_validateFilters(filters) ==
    LET parsed == JSON_parse(String(filters)) IN
    IF ~parsed.ok \/ parsed.val.t \in {"null", "undefined"} THEN EmptyPredicate
    ELSE LET normalizedFilters ==
                 NormalizeKeys(parsed.val, Object_keys(parsed.val), 1, <<>>)
         IN ApplyRules(normalizedFilters, Object_keys(JSObject(normalizedFilters)), 1)

\* The where-conditions getTasksBySheet hands to findMany and count: the
\* sheet, the member restriction when memberId is set, the validated filters
\* spread over them when filters is given, and name replaced by the search
\* condition when search is given.
TaskRepository_getTasksBySheet_FiltersLast(sheetId, memberId, search, filters) ==
    LET base == <<[k |-> <<"s", "h", "e", "e", "t", "I", "d">>, v |-> sheetId]>>
        whereConditions ==
            IF Boolean(memberId).b
            THEN Append(base, [k |-> <<"m", "e", "m", "b", "e", "r", "s">>, v |-> Some(memberId)])
            ELSE base
        searched ==
            IF Boolean(search).b
            THEN ObjSet(whereConditions, <<"n", "a", "m", "e">>, ContainsInsensitive(search))
            ELSE whereConditions
    IN IF Boolean(filters).b
       THEN ObjSpread(searched, TaskRepository_validateFilters(filters), 1)
       ELSE searched
TaskRepository_getTasksBySheet(sheetId, memberId, search, filters) ==
    LET base == <<[k |-> <<"s", "h", "e", "e", "t", "I", "d">>, v |-> sheetId]>>
        whereConditions ==
            IF Boolean(memberId).b
            THEN Append(base, [k |-> <<"m", "e", "m", "b", "e", "r", "s">>, v |-> Some(memberId)])
            ELSE base
        filtered ==
            IF Boolean(filters).b
            THEN ObjSpread(whereConditions, TaskRepository_validateFilters(filters), 1)
            ELSE whereConditions
    IN IF Boolean(search).b
       THEN ObjSet(filtered, <<"n", "a", "m", "e">>, ContainsInsensitive(search))
       ELSE filtered

----------------------------------------------------------------------------
\* The sanitizing validateFilters (the filter-fix scripts)
\*
\* Each replace(/re/g, ...) scans from the left; where the expression matches
\* the replacement is written and the scan goes on after the match, elsewhere
\* the character is copied.  A match is described by [ok, text, next]: the
\* replacement text and the index after the matched text.

NoMatch == [ok |-> FALSE]
Match(text, next) == [ok |-> TRUE, text |-> text, next |-> next]

\* /\[\*([^\]]+?)\]/ at i, rewritten to ["cleanContent"], where
\* cleanContent = content.replace(/\s+/g, '').replace(/"/g, '')
StarArrayAt(s, i) ==
    IF s[i] = "[" /\ i + 1 <= Len(s) /\ s[i + 1] = "*"
    THEN LET close == IndexOf(s, "]", i + 2)
             cleanContent == SelectSeq(SubSeq(s, i + 2, close - 1),
                                       LAMBDA c : ~IsSpaceChar(c) /\ c # Quote)
         IN
         IF close >= i + 3
         THEN Match(<<"[", Quote>> \o cleanContent \o <<Quote, "]">>, close + 1)
         ELSE NoMatch
    ELSE NoMatch

\* /\['"([^"]+?)"\]/ at i, rewritten to ["$1"]
QuotedArrayAt(s, i) ==
    IF s[i] = "[" /\ i + 2 <= Len(s) /\ s[i + 1] = "'" /\ s[i + 2] = Quote
    THEN LET close == IndexOf(s, Quote, i + 3) IN
         IF close >= i + 4 /\ close + 1 <= Len(s) /\ s[close + 1] = "]"
         THEN Match(<<"[", Quote>> \o SubSeq(s, i + 3, close - 1) \o <<Quote, "]">>,
                    close + 2)
         ELSE NoMatch
    ELSE NoMatch

\* /([^"]\w+):/ at i, rewritten to "$1":
BareKeyAt(s, i) ==
    LET stop == SkipWord(s, i + 1) IN
    IF s[i] # Quote /\ stop > i + 1 /\ stop <= Len(s) /\ s[stop] = ":"
    THEN Match(<<Quote>> \o SubSeq(s, i, stop - 1) \o <<Quote, ":">>, stop + 1)
    ELSE NoMatch

\* /"\s*(\w+)\s*":/ at i, rewritten to "$1":
PaddedKeyAt(s, i) ==
    IF s[i] # Quote THEN NoMatch
    ELSE LET word == SkipSpaces(s, i + 1)
             stop == SkipWord(s, word)
             close == SkipSpaces(s, stop)
         IN
         IF stop > word /\ close + 1 <= Len(s) /\ s[close] = Quote /\ s[close + 1] = ":"
         THEN Match(<<Quote>> \o SubSeq(s, word, stop - 1) \o <<Quote, ":">>, close + 2)
         ELSE NoMatch

\* The group ([^"]+?) after "\s*: what follows the white space up to the next
\* quote, or the last blank when there is nothing but white space.
GroupAfterSpaces(s, i, close) ==
    IF SkipSpaces(s, i + 1) < close THEN SubSeq(s, SkipSpaces(s, i + 1), close - 1)
    ELSE <<s[close - 1]>>

\* /"\s+([^"]+?)":/ at i, rewritten to "$1":
LeadingSpaceKeyAt(s, i) ==
    IF s[i] # Quote THEN NoMatch
    ELSE LET close == IndexOf(s, Quote, i + 1) IN
         IF /\ close >= i + 3
            /\ IsSpaceChar(s[i + 1])
            /\ close + 1 <= Len(s) /\ s[close + 1] = ":"
         THEN Match(<<Quote>> \o GroupAfterSpaces(s, i, close) \o <<Quote, ":">>, close + 2)
         ELSE NoMatch

\* /"\s*([^"]+?)"\s*\[/ at i, rewritten to "$1": [
MissingColonAt(s, i) ==
    IF s[i] # Quote THEN NoMatch
    ELSE LET close == IndexOf(s, Quote, i + 1)
             bracket == SkipSpaces(s, close + 1)
         IN
         IF close >= i + 2 /\ bracket <= Len(s) /\ s[bracket] = "["
         THEN Match(<<Quote>> \o GroupAfterSpaces(s, i, close) \o <<Quote, ":", " ", "[">>,
                    bracket + 1)
         ELSE NoMatch

\* The text handed to JSON.parse: trimmed, the wrapping [ and ] or ) taken
\* off, the lists and the bare keys rewritten, braces added where missing,
\* the quoted keys rewritten.  replace(At, s, i) is s.replace(/re/g, ...)
\* from index i on, for the expression that At matches: the text up to the
\* leftmost match is copied, the match is replaced, and the scan goes on
\* after it.
Sanitize(filters) ==
    LET RECURSIVE replace(_, _, _)
        replace(At(_, _), s, i) ==
            IF \E j \in i..Len(s) : At(s, j).ok
            THEN LET at == CHOOSE j \in i..Len(s) :
                              At(s, j).ok /\ \A k \in i..(j - 1) : ~At(s, k).ok
                     m == At(s, at)
                 IN SubSeq(s, i, at - 1) \o m.text \o replace(At, s, m.next)
            ELSE SubSeq(s, i, Len(s))
        stripLeading(s) == IF Len(s) > 0 /\ s[1] = "[" THEN SubSeq(s, 2, Len(s)) ELSE s
        stripTrailing(s, c) ==
            IF Len(s) > 0 /\ s[Len(s)] = c THEN SubSeq(s, 1, Len(s) - 1) ELSE s
        addOpening(s) == IF Len(s) > 0 /\ s[1] = "{" THEN s ELSE <<"{">> \o s
        addClosing(s) == IF s[Len(s)] = "}" THEN s ELSE s \o <<"}">>
        stripped == stripTrailing(stripTrailing(stripLeading(trim(filters)), "]"), ")")
        arrays == replace(QuotedArrayAt, replace(StarArrayAt, stripped, 1), 1)
        wrapped == addClosing(addOpening(replace(BareKeyAt, arrays, 1)))
    IN replace(MissingColonAt,
               replace(LeadingSpaceKeyAt, replace(PaddedKeyAt, wrapped, 1), 1), 1)

\* The forEach over the normalized keys: the script types status, priority
\* and members only.
RECURSIVE ScriptApplyRules(_, _, _)
ScriptApplyRules(obj, keys, i) ==
    IF i > Len(keys) THEN obj
    ELSE LET key == keys[i]
             value == ObjGet(obj, key)
             ruled == IF IsBlank(value) THEN ObjDelete(obj, key)
                      ELSE IF key \in { <<"s", "t", "a", "t", "u", "s">>, <<"p", "r", "i", "o", "r", "i", "t", "y">>, <<"m", "e", "m", "b", "e", "r", "s">> }
                      THEN ListRule(obj, key, value)
                      ELSE obj
         IN ScriptApplyRules(ruled, keys, i + 1)

\* validateFilters of the scripts: the entries of the predicate it returns.
\* filters.trim() throws on null and undefined, JSON.parse on text that is not
\* JSON, Object.keys on null; the catch block answers each.
validateFilters(filters) ==
    IF filters.t # "str" THEN EmptyPredicate
    ELSE LET parsed == JSON_parse(Sanitize(filters.s)) IN
         IF ~parsed.ok \/ parsed.val.t \in {"null", "undefined"} THEN EmptyPredicate
         ELSE LET normalizedFilters ==
                      NormalizeKeys(parsed.val, Object_keys(parsed.val), 1, <<>>)
              IN ScriptApplyRules(normalizedFilters, Object_keys(JSObject(normalizedFilters)), 1)

----------------------------------------------------------------------------
\* The filters strings a client sends

MaxItems == 2

\* A request carries the filters value, the same filter written as clean
\* JSON, and the malformations that were applied to it.
Filter(filters, clean, shapes) == [filters |-> filters, clean |-> clean, shapes |-> shapes]

\* JSON.stringify of the values a filter field takes: scalars, and lists of
\* up to MaxItems items.
ValueTexts ==
    LET scalars ==
        { <<"n", "u", "l", "l">>, <<"\"", "\"">>, <<"\"", "a", "\"">>, <<"\"", "f", "a", "l", "s", "e", "\"">>, <<"\"", "2", "0", "2", "4", "\"">>, <<"\"", " ", "\"">>,
          <<"0">>, <<"5">>, <<"t", "r", "u", "e">>, <<"f", "a", "l", "s", "e">> }
        items == { <<"n", "u", "l", "l">>, <<"\"", "\"">>, <<"\"", "a", "\"">>, <<"\"", "b", "\"">> }
        lists == {<<"[">> \o Join(list, 1) \o <<"]">> :
                    list \in UNION {[1..n -> items] : n \in 0..MaxItems}}
    IN scalars \cup lists

FieldNames ==
    { <<"s", "t", "a", "t", "u", "s">>, <<"S", "t", "a", "t", "u", "s">>, <<"p", "r", "i", "o", "r", "i", "t", "y">>, <<"m", "e", "m", "b", "e", "r", "s">>, <<"l", "i", "n", "k", "s">>, <<"s", "e", "l", "e", "c", "t", "1">>,
      <<"p", "r", "i", "c", "e">>, <<"n", "u", "m", "b", "e", "r", "1">>, <<"p", "a", "i", "d">>, <<"c", "h", "e", "c", "k", "b", "o", "x", "1">>, <<"n", "a", "m", "e">>, <<"t", "e", "x", "t", "1">>,
      <<"d", "a", "t", "e", "1">>, <<"d", "u", "e", "d", "a", "t", "e", "1">>, <<"c", "u", "s", "t", "o", "m">> }

QuotedKey(name) == <<Quote>> \o name \o <<Quote, ":">>

ObjectText(body) == <<"{">> \o body \o <<"}">>

\* {"field": value}
OneFieldFilters ==
    {Filter(JSString(ObjectText(QuotedKey(name) \o value)),
            ObjectText(QuotedKey(name) \o value), {}) :
        name \in FieldNames, value \in ValueTexts}

\* The same field under two spellings, and two fields side by side.
TwoFieldFilters ==
    LET texts ==
        { <<"{", "\"", "S", "t", "a", "t", "u", "s", "\"", ":", "[", "\"", "a", "\"", "]", ",", "\"", "s", "t", "a", "t", "u", "s", "\"", ":", "[", "\"", "b", "\"", "]", "}">>,
          <<"{", "\"", "s", "t", "a", "t", "u", "s", "\"", ":", "[", "\"", "a", "\"", "]", ",", "\"", "S", "T", "A", "T", "U", "S", "\"", ":", "[", "]", "}">>,
          <<"{", "\"", "s", "t", "a", "t", "u", "s", "\"", ":", "[", "\"", "a", "\"", ",", "n", "u", "l", "l", "]", ",", "\"", "p", "r", "i", "c", "e", "\"", ":", "\"", "2", "0", "2", "4", "\"", "}">>,
          <<"{", "\"", "P", "a", "i", "d", "\"", ":", "\"", "f", "a", "l", "s", "e", "\"", ",", "\"", "N", "u", "m", "b", "e", "r", "1", "\"", ":", "\"", "a", "\"", "}">>,
          <<"{", " ", "\"", "m", "e", "m", "b", "e", "r", "s", "\"", " ", ":", " ", "[", " ", "\"", "a", "\"", " ", ",", " ", "\"", "\"", " ", "]", " ", ",", " ", "\"", "p", "a", "i", "d", "\"", " ", ":", " ", "0", " ", "}">>,
          <<"{", "\"", "C", "u", "s", "t", "o", "m", "\"", ":", "\"", "a", "\"", ",", "\"", "s", "t", "a", "t", "u", "s", "\"", ":", "[", "\"", "a", "\"", ",", "n", "u", "l", "l", "]", "}">>,
          <<"{", "\"", "p", "a", "i", "d", "\"", ":", "0", ",", "\"", "c", "u", "s", "t", "o", "m", "\"", ":", "[", "n", "u", "l", "l", "]", "}">>,
          <<"{", "\"", "n", "a", "m", "e", "\"", ":", "\"", "a", "\"", ",", "\"", "m", "e", "m", "b", "e", "r", "s", "\"", ":", "[", "\"", "b", "\"", "]", ",", "\"", "e", "x", "t", "r", "a", "\"", ":", "5", "}">>,
          <<"{", "\"", "s", "h", "e", "e", "t", "I", "d", "\"", ":", "\"", "x", "\"", ",", "\"", "m", "e", "m", "b", "e", "r", "s", "\"", ":", "[", "\"", "b", "\"", "]", "}">>,
          <<"{", "\"", "n", "a", "m", "e", "\"", ":", "\"", "a", ":", "b", "\"", ",", "\"", "t", "e", "x", "t", "1", "\"", ":", "\"", "c", "[", "d", "\"", "}">>,
          <<"{", "\"", "n", "a", "m", "e", "\"", ":", "\"", "a", ":", " ", "b", "\"", ",", "\"", "s", "t", "a", "t", "u", "s", "\"", ":", "[", "\"", "c", ":", "d", "\"", "]", "}">>,
          <<"{", "\"", "n", "a", "m", "e", "\"", ":", "\"", "a", "b", ":", "c", "\"", ",", "\"", "p", "a", "i", "d", "\"", ":", "t", "r", "u", "e", "}">>,
          <<"{", "\"", "s", "t", "a", "t", "u", "s", "\"", ":", "[", "\"", "a", "\"", "]", ",", "\"", "n", "a", "m", "e", "\"", ":", "\"", "[", "x", "\"", "}">> }
    IN {Filter(JSString(text), text, {}) : text \in texts}

\* Values that are no filter object at all.
NotObjectFilters ==
    LET texts ==
        { <<>>, <<" ", " ", " ">>, <<"n", "o", "t", " ", "j", "s", "o", "n", " ", "a", "t", " ", "a", "l", "l">>, <<"{", "i", "n", "v", "a", "l", "i", "d", " ", "j", "s", "o", "n", "}">>, <<"{", "\"", "i", "n", "c", "o", "m", "p", "l", "e", "t", "e", "\"", ":">>,
          <<"{", "\"", "t", "r", "a", "i", "l", "i", "n", "g", "\"", ":", " ", "\"", "c", "o", "m", "m", "a", "\"", ",", "}">>, <<"{", "\"", "u", "n", "c", "l", "o", "s", "e", "d", "\"", ":", " ", "\"", "s", "t", "r", "i", "n", "g">>, <<"{", "\"", "u", "n", "c", "l", "o", "s", "e", "d", "\"", ":", " ", "[">>,
          <<"{", "\"", "u", "n", "c", "l", "o", "s", "e", "d", "\"", ":", " ", "{", "\"", "n", "e", "s", "t", "e", "d", "\"", ":">>, <<"n", "u", "l", "l">>, <<"5">>, <<"t", "r", "u", "e">>, <<"\"", "a", "b", "\"">>, <<"[", "\"", "a", "\"", "]">>,
          <<"[", "]">>, <<"{", "}">> }
    IN
    {Filter(JSString(text), <<"{", "}">>, {"not an object"}) : text \in texts}
    \cup {Filter(JSNull, <<"{", "}">>, {"not an object"}),
          Filter(JSUndefined, <<"{", "}">>, {"not an object"})}

\* One field of a malformed filter: how its key and its list are written.
\* [text, clean, shapes]
KeyForms(name) ==
    { [text |-> QuotedKey(name), shapes |-> {}],
      [text |-> <<Quote, " ">> \o name \o <<Quote, ":">>, shapes |-> {"leading space"}],
      [text |-> <<Quote>> \o name \o <<Quote, " ">>, shapes |-> {"missing colon"}],
      [text |-> <<Quote, " ">> \o name \o <<Quote, " ">>,
       shapes |-> {"leading space", "missing colon"}],
      [text |-> name \o <<":">>, shapes |-> {"bare key"}] }

QuotedList(tokens) ==
    <<"[">> \o Join([i \in DOMAIN tokens |-> <<Quote>> \o tokens[i] \o <<Quote>>], 1)
            \o <<"]">>

PlainForms(token) ==
    { [text |-> QuotedList(<<token>>), clean |-> QuotedList(<<token>>), shapes |-> {}],
      [text |-> <<"[", "'", Quote>> \o token \o <<Quote, "]">>,
       clean |-> QuotedList(<<token>>), shapes |-> {"quoted token"}] }

StarForms(token, other) ==
    { [text |-> <<"[", "*">> \o token \o <<"]">>,
       clean |-> QuotedList(<<token>>), shapes |-> {"star token"}],
      [text |-> <<"[", "*">> \o token \o <<" ", "1", Quote, "]">>,
       clean |-> QuotedList(<<token \o <<"1">> >>), shapes |-> {"star token", "dirty token"}],
      [text |-> <<"[", "*">> \o token \o <<",", "*">> \o other \o <<"]">>,
       clean |-> QuotedList(<<token, other>>), shapes |-> {"star list"}] }

Fields(name, lists) ==
    {[text |-> key.text \o list.text,
      clean |-> QuotedKey(name) \o list.clean,
      shapes |-> key.shapes \cup list.shapes] : key \in KeyForms(name), list \in lists}

\* The members field, the status field, or both, as written, wrapped in
\* { ... }, in [ ... ] or in [ ... )
MalformedFilters ==
    LET memberFields == Fields(<<"m", "e", "m", "b", "e", "r", "s">>, PlainForms(<<"a", "b", "c", "-", "1">>) \cup StarForms(<<"a", "b", "c", "-", "1">>, <<"d", "e", "-", "2">>))
        statusFields == Fields(<<"s", "t", "a", "t", "u", "s">>, PlainForms(<<"I", "n", " ", "p", "r", "o", "g", "r", "e", "s", "s">>))
        bodies ==
            memberFields \cup statusFields
            \cup {[text |-> m.text \o <<",">> \o s.text,
                   clean |-> m.clean \o <<",">> \o s.clean,
                   shapes |-> m.shapes \cup s.shapes] : m \in memberFields, s \in statusFields}
        wrappers ==
            { [open |-> "{", close |-> "}", shapes |-> {}],
              [open |-> "[", close |-> "]", shapes |-> {"array wrapper"}],
              [open |-> "[", close |-> ")", shapes |-> {"call wrapper"}] }
    IN {Filter(JSString(<<w.open>> \o b.text \o <<w.close>>),
               ObjectText(b.clean), w.shapes \cup b.shapes) :
           w \in wrappers, b \in bodies}

----------------------------------------------------------------------------
\* The task listing: one call per behaviour

Sheet == JSString(<<"s", "h", "e", "e", "t", "-", "1">>)

QuietReorder ==
    /\ db = [option |-> CreatedOptions, task |-> CreatedTasks]
    /\ call = [c \in {1, 2} |-> IdleCall]
    /\ commitOrder = <<>>

InitFilter ==
    /\ QuietServices
    /\ QuietReorder
    /\ select = NoSelect
    /\ query \in {[pc |-> "received", input |-> f] : f \in OneFieldFilters \cup TwoFieldFilters \cup NotObjectFilters
                        \cup MalformedFilters}

\* The repository's validateFilters is applied to the filters value.
ValidateFilters ==
    /\ query.pc = "received"
    /\ query' = [pc |-> "returned", input |-> query.input, by |-> "repository",
                 result |-> TaskRepository_validateFilters(query.input.filters)]
    /\ UNCHANGED <<db, call, commitOrder, select, backup, bulk, auth>>

\* The scripts' validateFilters is applied to the filters value.
ScriptValidateFilters ==
    /\ query.pc = "received"
    /\ query' = [pc |-> "returned", input |-> query.input, by |-> "script",
                 result |-> validateFilters(query.input.filters)]
    /\ UNCHANGED <<db, call, commitOrder, select, backup, bulk, auth>>

\* getTasksBySheet builds the where-conditions of its query, with or
\* without a member restriction and a search term.
GetTasksBySheet ==
    /\ query.pc = "received"
    /\ \E memberId \in {JSNull, JSString(<<"m", "1">>)},
          search \in {JSUndefined, JSString(<<>>), JSString(<<"x">>)} :
          query' = [pc |-> "listed", input |-> query.input,
                    memberId |-> memberId, search |-> search,
                    where |-> TaskRepository_getTasksBySheet(
                                  Sheet, memberId, search, query.input.filters)]
    /\ UNCHANGED <<db, call, commitOrder, select, backup, bulk, auth>>

NextFilter == ValidateFilters \/ ScriptValidateFilters \/ GetTasksBySheet

SpecFilter == InitFilter /\ [][NextFilter]_vars

----------------------------------------------------------------------------
\* OptionRepository.create
\*
\* findFirst and create are two statements with an await between them and no
\* transaction around them: another create may run in between.

Creators == {1, 2}

\* Orders that earlier creates and reorders may have left in the select;
\* rows from before the migration hold order 0.
ExistingOrders == 0..MaxOrder

InitCreate ==
    /\ QuietServices
    /\ QuietReorder
    /\ query = NoQuery
    /\ \E rows \in SeqsUpTo(ExistingOrders, MaxLen) :
          select = [pc |-> [p \in Creators |-> "idle"],
                    last |-> [p \in Creators |-> 0],
                    rows |-> [i \in DOMAIN rows |->
                                [order |-> rows[i], by |-> 0, found |-> {}]]]

OrdersIn(rows) == {rows[i].order : i \in DOMAIN rows}

\* findFirst({where: {selectId}, orderBy: {order: 'desc'}}): the highest
\* order, or 0 for null (no row).  Whether a row was found is kept in pc.
OptionRepository_findLast(p) ==
    /\ select.pc[p] = "idle"
    /\ select' = [select EXCEPT
                    !.pc[p] = IF select.rows = <<>> THEN "none found" ELSE "found",
                    !.last[p] = IF select.rows = <<>> THEN 0
                                ELSE (CHOOSE m \in OrdersIn(select.rows) :
                                        \A o \in OrdersIn(select.rows) : o <= m)]
    /\ UNCHANGED <<db, call, commitOrder, query, backup, bulk, auth>>

\* nextOrder = lastOption ? lastOption.order + 1 : 1
NextOrder(found, last) == IF found THEN last + 1 ELSE 1

\* prisma.option.create({data: {..., order: nextOrder}})
OptionRepository_create(p) ==
    /\ select.pc[p] \in {"found", "none found"}
    /\ select' = [select EXCEPT
                    !.pc[p] = "created",
                    !.rows = Append(@, [order |-> NextOrder(select.pc[p] = "found",
                                                            select.last[p]),
                                        by |-> p,
                                        found |-> OrdersIn(select.rows)])]
    /\ UNCHANGED <<db, call, commitOrder, query, backup, bulk, auth>>

NextCreate == \E p \in Creators : OptionRepository_findLast(p) \/ OptionRepository_create(p)

SpecCreate == InitCreate /\ [][NextCreate]_vars

----------------------------------------------------------------------------
\* Properties of the filter normalizer and of option creation

Returned(by) == query.pc = "returned" /\ query.by = by

\* The filters value as JSON.parse reads it.
ParsedFilters(filters) == JSON_parse(String(filters))

\* The text is JSON for an object (or an array, an object to JavaScript).
ParsesAsObject(filters) ==
    LET parsed == ParsedFilters(filters) IN
    parsed.ok /\ parsed.val.t \in {"obj", "arr"}

\* The parsed object under its lowercased keys, before any typing rule.
GivenFields(filters) ==
    LET parsed == ParsedFilters(filters) IN
    IF parsed.ok /\ parsed.val.t \in {"obj", "arr"}
    THEN NormalizeKeys(parsed.val, Object_keys(parsed.val), 1, <<>>)
    ELSE <<>>

\* C11: for a filters value that is absent, null, empty, blank, or any string
\* that does not parse as an object, validateFilters returns the empty
\* predicate.
C11_NonObjectGivesEmptyPredicate ==
    (Returned("repository") /\ ~ParsesAsObject(query.input.filters))
    => query.result = <<>>

\* The malformations the sanitizer is said to repair.
KnownShapes ==
    {"array wrapper", "call wrapper", "star token", "quoted token",
     "leading space", "missing colon"}

\* C12: a filter written with known malformations only gives the predicate
\* that its manually cleaned JSON gives.
C12_KnownShapesRepaired ==
    (/\ Returned("repository")
     /\ query.input.shapes # {}
     /\ query.input.shapes \subseteq KnownShapes)
    => query.result = TaskRepository_validateFilters(JSString(query.input.clean))

IsListField(key) ==
    \/ key \in { <<"s", "t", "a", "t", "u", "s">>, <<"p", "r", "i", "o", "r", "i", "t", "y">>, <<"m", "e", "m", "b", "e", "r", "s">>, <<"l", "i", "n", "k", "s">> }
    \/ startsWith(key, <<"s", "e", "l", "e", "c", "t">>)

Remaining(list) == SelectSeq(list, LAMBDA v : ~IsBlank(v))

Given(value) == value.t = "str" /\ value.s # <<>>

\* The conditions of a listing without filters.
ExpectedBase(memberId, search) ==
    <<[k |-> <<"s", "h", "e", "e", "t", "I", "d">>, v |-> Sheet]>>
    \o (IF Given(memberId) THEN <<[k |-> <<"m", "e", "m", "b", "e", "r", "s">>, v |-> Some(memberId)]>> ELSE <<>>)
    \o (IF Given(search) THEN <<[k |-> <<"n", "a", "m", "e">>, v |-> ContainsInsensitive(search)]>>
        ELSE <<>>)

\* C14: when the filters value cannot be turned into a predicate (it does
\* not parse as an object), getTasksBySheet queries with exactly the sheet,
\* the member restriction if memberId is set, and the search condition if
\* search is given.
C14_BadFilterLeavesBaseConditions ==
    (query.pc = "listed" /\ ~ParsesAsObject(query.input.filters))
    => query.where = ExpectedBase(query.memberId, query.search)

\* C15: an option that create adds has an order above the order of every
\* option that was in the select when it was added, however create calls
\* for the select interleave.
C15_CreatedOrderAboveExisting ==
    select # NoSelect =>
        \A i \in DOMAIN select.rows :
            select.rows[i].by # 0
            => \A o \in select.rows[i].found : select.rows[i].order > o

\* C16: a filter whose only malformation is unquoted keys gives the
\* predicate of its quoted-key form.
C16_BareKeysQuoted ==
    (Returned("script") /\ query.input.shapes = {"bare key"})
    => query.result = validateFilters(JSString(query.input.clean))

\* C17: a list of *-prefixed tokens becomes the list of the tokens, one
\* element each, stripped of white space and quotes.
C17_StarListElementwise ==
    (/\ Returned("script")
     /\ "star list" \in query.input.shapes
     /\ query.input.shapes \subseteq {"star list"})
    => query.result = validateFilters(JSString(query.input.clean))

HasUpperCase(text) == text # toLowerCase(text)

\* Filters whose field values hold no capitals: lowercasing the text
\* lowercases the keys and nothing else.
LowerCaseValued(input) == input \in OneFieldFilters \cup TwoFieldFilters

\* C18: every key of the predicate is lowercase, and a field written with
\* capitals gives what the same field gives written in lowercase.
C18_KeysCaseInsensitive ==
    Returned("repository") =>
        /\ \A i \in DOMAIN query.result : ~HasUpperCase(query.result[i].k)
        /\ LowerCaseValued(query.input)
           => query.result =
                TaskRepository_validateFilters(JSString(toLowerCase(query.input.clean)))

C18_Witness ==
    /\ Returned("repository")
    /\ query.input.filters = JSString( <<"{", "\"", "S", "t", "a", "t", "u", "s", "\"", ":", "[", "\"", "a", "\"", "]", "}">> )
    /\ query.result = <<[k |-> <<"s", "t", "a", "t", "u", "s">>, v |-> In(<<JSString(<<"a">>)>>)]>>

IsNumberField(key) == key = <<"p", "r", "i", "c", "e">> \/ startsWith(key, <<"n", "u", "m", "b", "e", "r">> )

\* C19: for price and number*, a value that converts to a number v gives
\* {equals: v} and any other value leaves the key out; what such a key maps
\* to is always {equals: a number}.
C19_NumericCoercedOrDropped ==
    Returned("repository") =>
        LET given == GivenFields(query.input.filters) IN
        /\ \A i \in DOMAIN given :
              LET key == given[i].k
                  value == given[i].v
              IN (IsNumberField(key) /\ ~IsBlank(value))
                 => IF Number(value).t = "num"
                    THEN ObjGet(query.result, key) = Equals(Number(value))
                    ELSE ~ObjHas(query.result, key)
        /\ \A i \in DOMAIN query.result :
              IsNumberField(query.result[i].k)
              => /\ query.result[i].v.t = "equals"
                 /\ query.result[i].v.value.t = "num"

C19_Witness ==
    /\ Returned("repository")
    /\ query.input.filters = JSString( <<"{", "\"", "P", "a", "i", "d", "\"", ":", "\"", "f", "a", "l", "s", "e", "\"", ",", "\"", "N", "u", "m", "b", "e", "r", "1", "\"", ":", "\"", "a", "\"", "}">> )
    /\ ~ObjHas(query.result, <<"n", "u", "m", "b", "e", "r", "1">> )

IsBooleanField(key) == key = <<"p", "a", "i", "d">> \/ startsWith(key, <<"c", "h", "e", "c", "k", "b", "o", "x">> )

\* The boolean a value denotes: the string "false" denotes false.
Denoted(value) ==
    IF value = JSString( <<"f", "a", "l", "s", "e">> ) THEN JSBoolean(FALSE) ELSE Boolean(value)

\* C20: for paid and checkbox*, a value that is not null or '' gives
\* {equals: b}, b the boolean the value denotes: false for false, 0 and
\* "false".
C20_BooleanDenoted ==
    Returned("repository") =>
        LET given == GivenFields(query.input.filters) IN
        \A i \in DOMAIN given :
            LET key == given[i].k
                value == given[i].v
            IN (IsBooleanField(key) /\ ~IsBlank(value))
               => ObjGet(query.result, key) = Equals(Denoted(value))

\* A key that one of the typed rules of validateFilters takes.
IsRecognized(key) ==
    \/ key = <<"n", "a", "m", "e">>
    \/ IsListField(key) \/ IsNumberField(key) \/ IsBooleanField(key)
    \/ startsWith(key, <<"t", "e", "x", "t">>)
    \/ startsWith(key, <<"d", "a", "t", "e">>)
    \/ startsWith(key, <<"d", "u", "e", "d", "a", "t", "e">>)

\* The given fields without the keys that no rule takes.
RecognizedOnly(fields) == SelectSeq(fields, LAMBDA e : IsRecognized(e.k))

\* C21: a key that no typed rule takes and whose value is not null or ''
\* is in the result under its lowercased name with the parsed value, and
\* the other keys get the predicates they get without it.
C21_UnrecognizedKeysPassThrough ==
    Returned("repository") =>
        LET given == GivenFields(query.input.filters)
            others == RecognizedOnly(given)
        IN
        /\ \A i \in DOMAIN given :
              (/\ ~IsRecognized(given[i].k)
               /\ given[i].v.t # "null"
               /\ ~(given[i].v.t = "str" /\ given[i].v.s = <<>>))
              => ObjGet(query.result, given[i].k) = given[i].v
        /\ RecognizedOnly(query.result)
             = ApplyRules(others, Object_keys(JSObject(others)), 1)

C21_Witness ==
    /\ Returned("repository")
    /\ query.input.filters = JSString( <<"{", "\"", "C", "u", "s", "t", "o", "m", "\"", ":", "\"", "a", "\"", ",", "\"", "s", "t", "a", "t", "u", "s", "\"", ":", "[", "\"", "a", "\"", ",", "n", "u", "l", "l", "]", "}">> )
    /\ ObjGet(query.result, <<"c", "u", "s", "t", "o", "m">>) = JSString(<<"a">>)
    /\ ObjGet(query.result, <<"s", "t", "a", "t", "u", "s">>) = In(<<JSString(<<"a">>)>>)

----------------------------------------------------------------------------
\* Reorder: what it leaves alone

C24_RequestObjectUnmodified ==
    \A c \in Slots :
        (call[c].kind = "task" /\ call[c].pc # "idle")
        => /\ call[c].body.ids = call[c].req.ids
           /\ call[c].body.orders = call[c].req.orders

----------------------------------------------------------------------------
\* Listing after a task reorder

\* findMany({ skip, take, orderBy: { order: 'desc' } }) over the tasks of the
\* sheet: any arrangement by descending order (rows of equal order come in
\* an order the database chooses), cut to the page.
FindMany(tbl, skip, take) ==
    LET n == Cardinality(DOMAIN tbl)
        sorted == {s \in [1..n -> DOMAIN tbl] :
                     /\ Distinct(s)
                     /\ \A i, j \in 1..n : i < j => tbl[s[i]] >= tbl[s[j]]}
        last == IF skip + take < n THEN skip + take ELSE n
    IN {SubSeq(s, skip + 1, last) : s \in sorted}

\* getTasksBySheet without filters and search, after the reorder has ended.
ListSheet(c) ==
    /\ Finished(c)
    /\ query.pc = "none"
    /\ \E page \in {1, 2}, limit \in {1, 12} :
          \E tasks \in FindMany(db.task, (page - 1) * limit, limit) :
              query' = [pc |-> "page", page |-> page, limit |-> limit,
                        tasks |-> tasks]
    /\ UNCHANGED <<db, call, commitOrder, select, backup, bulk, auth>>

InitList ==
    /\ QuietServices
    /\ db \in {[option |-> CreatedOptions, task |-> t] : t \in [TaskRows -> OrderValues]}
    /\ call = [c \in {1, 2} |-> IdleCall]
    /\ commitOrder = <<>>
    /\ query = NoQuery
    /\ select = NoSelect

NextList ==
    \E c \in {1} :
        \/ ClientTaskRequest(c)
        \/ ExecuteUpdate(c)
        \/ Rollback(c)
        \/ Commit(c)
        \/ ListSheet(c)

SpecList == InitList /\ [][NextList]_vars

StrictlyIncreasing(s) == \A i, j \in DOMAIN s : i < j => s[i] < s[j]

\* C25: after a task reorder that resolved with taskId naming every task of
\* the sheet once, in the display sequence, and one strictly increasing order
\* per task, the next listing of the sheet (first page, holding all tasks)
\* returns the tasks in the sequence of taskId.
C25_ReorderThenListRoundTrips ==
    \A c \in Slots :
        (/\ query.pc = "page"
         /\ call[c].kind = "task"
         /\ call[c].pc = "resolved"
         /\ Distinct(call[c].req.ids)
         /\ IdsOf(call[c].req.ids) = DOMAIN db.task
         /\ Len(call[c].req.orders) = Len(call[c].req.ids)
         /\ StrictlyIncreasing(call[c].req.orders)
         /\ query.page = 1
         /\ query.limit >= Len(call[c].req.ids))
        => query.tasks = call[c].req.ids

\* The reorder put the task that had the lowest order first in the listing.
C25_Witness ==
    \E c \in Slots :
        /\ query.pc = "page"
        /\ call[c].kind = "task"
        /\ call[c].pc = "resolved"
        /\ call[c].req.ids = <<"t1", "t2">>
        /\ call[c].req.orders = <<1, 2>>
        /\ call[c].pre["t1"] < call[c].pre["t2"]
        /\ query.page = 1
        /\ query.limit = 12
        /\ query.tasks = <<"t1", "t2">>

----------------------------------------------------------------------------
\* The listing scope

\* C23: whatever the filters value, the where-conditions of getTasksBySheet
\* hold sheetId equal to the requested sheet and, when memberId is not null,
\* the restriction to tasks that have memberId among their members.
C23_FiltersCannotWidenScope ==
    query.pc = "listed"
    => /\ ObjGet(query.where, <<"s", "h", "e", "e", "t", "I", "d">>) = Sheet
       /\ query.memberId.t # "null"
          => ObjGet(query.where, <<"m", "e", "m", "b", "e", "r", "s">>).t = "some"

\* C26: with a search term and a filters object that has a name entry, the
\* name condition of the query is the case-insensitive match on the search
\* term, and every other predicate of the filters is in the query as
\* validateFilters returned it.
C26_SearchOverridesNameFilter ==
    (/\ query.pc = "listed"
     /\ Given(query.search)
     /\ ParsesAsObject(query.input.filters)
     /\ ObjHas(GivenFields(query.input.filters), <<"n", "a", "m", "e">>))
    => LET validated == TaskRepository_validateFilters(query.input.filters) IN
       /\ ObjGet(query.where, <<"n", "a", "m", "e">>) = ContainsInsensitive(query.search)
       /\ \A i \in DOMAIN validated :
             validated[i].k # <<"n", "a", "m", "e">>
             => ObjGet(query.where, validated[i].k) = validated[i].v

C26_Witness ==
    /\ query.pc = "listed"
    /\ query.search = JSString(<<"x">>)
    /\ ObjGet(TaskRepository_validateFilters(query.input.filters), <<"n", "a", "m", "e">>)
         = ContainsInsensitive(JSString(<<"a">>))
    /\ ObjGet(query.where, <<"n", "a", "m", "e">>) = ContainsInsensitive(JSString(<<"x">>))
    /\ ObjGet(query.where, <<"e", "x", "t", "r", "a">>) = JSNumber(5)

\* C30: for a filters string that is JSON for an object, the sanitizing
\* validateFilters returns what parsing the string as it is and applying the
\* same key normalization and rules returns.
C30_SanitizerConservative ==
    (/\ Returned("script")
     /\ query.input.filters.t = "str"
     /\ ParsedFilters(query.input.filters).ok
     /\ ParsedFilters(query.input.filters).val.t = "obj")
    => LET given == GivenFields(query.input.filters) IN
       query.result = ScriptApplyRules(given, Object_keys(JSObject(given)), 1)

----------------------------------------------------------------------------
\* BackupService.backup
\*
\* The cron job runs backup() once a day.  Every awaited step either
\* succeeds or throws; backup.records holds the status of each backup record,
\* backup.id the record of the current run (0: none), backup.failed the step
\* of the try block that threw, backup.handled whether handleBackupError
\* completed.

MaxRuns == 3

InitBackup ==
    /\ QuietReorder
    /\ query = NoQuery
    /\ select = NoSelect
    /\ bulk = [pc |-> "none"]
    /\ auth = [pc |-> "none"]
    /\ backup = [pc |-> "idle", records |-> <<>>, id |-> 0,
                 failed |-> "none", handled |-> FALSE]

\* backup() starts: createBackupRecord creates the record as PENDING, or the
\* create throws and backup() throws before its try block.
BackupService_backup ==
    /\ backup.pc \in {"idle", "returned", "thrown"}
    /\ Len(backup.records) < MaxRuns
    /\ \/ backup' = [pc |-> "created", records |-> Append(backup.records, "PENDING"),
                     id |-> Len(backup.records) + 1,
                     failed |-> "none", handled |-> FALSE]
       \/ backup' = [backup EXCEPT !.pc = "thrown", !.id = 0,
                                   !.failed = "create", !.handled = FALSE]
    /\ UNCHANGED <<db, call, commitOrder, query, select, bulk, auth>>

\* await this.createDatabaseDump(filePath): pg_dump ran, or it throws
\* "Database dump failed: ...".
createDatabaseDump ==
    /\ backup.pc = "created"
    /\ \/ backup' = [backup EXCEPT !.pc = "dumped"]
       \/ backup' = [backup EXCEPT !.pc = "catch", !.failed = "dump"]
    /\ UNCHANGED <<db, call, commitOrder, query, select, bulk, auth>>

\* await this.uploadToS3(filePath, fileName): readFileSync and the upload.
uploadToS3 ==
    /\ backup.pc = "dumped"
    /\ \/ backup' = [backup EXCEPT !.pc = "uploaded"]
       \/ backup' = [backup EXCEPT !.pc = "catch", !.failed = "upload"]
    /\ UNCHANGED <<db, call, commitOrder, query, select, bulk, auth>>

\* await this.updateBackupSuccess(backup.id, uploadResult): the record
\* becomes COMPLETED; cleanupTempFile catches its own errors and backup()
\* returns.  Or the update throws.
updateBackupSuccess ==
    /\ backup.pc = "uploaded"
    /\ \/ backup' = [backup EXCEPT !.pc = "returned",
                                   !.records[backup.id] = "COMPLETED"]
       \/ backup' = [backup EXCEPT !.pc = "catch", !.failed = "update"]
    /\ UNCHANGED <<db, call, commitOrder, query, select, bulk, auth>>

\* catch: await this.handleBackupError(backup.id, error) sets the record to
\* FAILED, then the temp file is removed and the error is thrown again; when
\* the update of handleBackupError throws, that error leaves backup().
handleBackupError ==
    /\ backup.pc = "catch"
    /\ \/ backup' = [backup EXCEPT !.pc = "thrown", !.handled = TRUE,
                                   !.records[backup.id] = "FAILED"]
       \/ backup' = [backup EXCEPT !.pc = "thrown"]
    /\ UNCHANGED <<db, call, commitOrder, query, select, bulk, auth>>

NextBackup ==
    \/ BackupService_backup
    \/ createDatabaseDump
    \/ uploadToS3
    \/ updateBackupSuccess
    \/ handleBackupError

SpecBackup == InitBackup /\ [][NextBackup]_vars

\* C28: a run of backup() that created a record has, once it has returned or
\* thrown, left that record COMPLETED or FAILED, and COMPLETED exactly when
\* the dump, the upload and the success update all succeeded.
C28_BackupNeverLeftPending ==
    (backup.pc \in {"returned", "thrown"} /\ backup.id # 0)
    => /\ backup.records[backup.id] \in {"COMPLETED", "FAILED"}
       /\ backup.records[backup.id] = "COMPLETED" <=> backup.failed = "none"

----------------------------------------------------------------------------
\* CompanyService: the author check
\*
\* getUsage, getCurrentPlan, getOne, update and delete await validateUserRole
\* before anything else.  auth.user is what UserService.getUser resolved
\* with, auth.role what RoleService.getUserSelectedRole resolved with.

InitAuth ==
    /\ QuietReorder
    /\ query = NoQuery
    /\ select = NoSelect
    /\ backup = [pc |-> "none"]
    /\ bulk = [pc |-> "none"]
    /\ auth = [pc |-> "idle"]

\* One of the guarded methods is called for a principal.
CompanyService_call ==
    /\ auth.pc = "idle"
    /\ \E method \in {"getUsage", "getCurrentPlan", "getOne", "update", "delete"},
          id \in {"u1", "u2", "ux"} :
          auth' = [pc |-> "getUser", method |-> method, id |-> id]
    /\ UNCHANGED <<db, call, commitOrder, query, select, backup, bulk>>

\* const user = await this.user.getUser(id)
\* if (!user) throw new BadRequestException(USER.NOT_FOUND)
UserService_getUser ==
    /\ auth.pc = "getUser"
    /\ auth' = IF auth.id \in {"u1", "u2"}
               THEN [pc |-> "getRole", method |-> auth.method, id |-> auth.id,
                     user |-> auth.id]
               ELSE [pc |-> "thrown", method |-> auth.method, id |-> auth.id,
                     user |-> "null", role |-> JSUndefined,
                     error |-> "BadRequestException"]
    /\ UNCHANGED <<db, call, commitOrder, query, select, backup, bulk>>

\* const role = await this.role.getUserSelectedRole(user): the selected role
\* of the user, or null / undefined when there is none.
RoleService_getUserSelectedRole ==
    /\ auth.pc = "getRole"
    /\ \E role \in {JSNull, JSUndefined}
                   \cup {[t |-> "role", type |-> type, companyId |-> companyId] :
                           type \in RoleTypes, companyId \in {"c1", "c2"}} :
          auth' = [pc |-> "check", method |-> auth.method, id |-> auth.id,
                   user |-> auth.user, role |-> role]
    /\ UNCHANGED <<db, call, commitOrder, query, select, backup, bulk>>

\* if (role.type !== RoleTypes.AUTHOR || !role) throw new ForbiddenException
\* return role
\* role.type is read first: on null and undefined that read throws a
\* TypeError.
CompanyService_validateUserRole ==
    /\ auth.pc = "check"
    /\ auth' = [method |-> auth.method, id |-> auth.id, user |-> auth.user,
                role |-> auth.role,
                pc |-> IF auth.role.t = "role" /\ auth.role.type = "AUTHOR"
                       THEN "proceeds" ELSE "thrown",
                error |-> CASE auth.role.t \in {"null", "undefined"} -> "TypeError"
                            [] auth.role.type # "AUTHOR" -> "ForbiddenException"
                            [] OTHER -> "none"]
    /\ UNCHANGED <<db, call, commitOrder, query, select, backup, bulk>>

NextAuth ==
    \/ CompanyService_call
    \/ UserService_getUser
    \/ RoleService_getUserSelectedRole
    \/ CompanyService_validateUserRole

SpecAuth == InitAuth /\ [][NextAuth]_vars

\* C29: validateUserRole throws BadRequestException when the user is not
\* found and ForbiddenException when the selected role is null, undefined or
\* of a type other than AUTHOR; the method goes on only with a role of type
\* AUTHOR, which validateUserRole returned.
C29_AuthorCheckFailsClosed ==
    auth.pc \in {"thrown", "proceeds"}
    => /\ auth.user = "null" => (auth.pc = "thrown" /\ auth.error = "BadRequestException")
       /\ (auth.user # "null" /\ ~(auth.role.t = "role" /\ auth.role.type = "AUTHOR"))
          => (auth.pc = "thrown" /\ auth.error = "ForbiddenException")
       /\ auth.pc = "proceeds" => (auth.role.t = "role" /\ auth.role.type = "AUTHOR")

----------------------------------------------------------------------------
\* TaskRepository.bulkDelete
\*
\* bulkDelete looks the tasks up (findMany) and deletes them (deleteMany) in
\* two statements with an await between them; createTask, move and
\* deleteTask of other requests may run before, between and after them.
\* bulk.tasks maps a task id to its row, marked "unused" for an id the
\* database has not generated yet and "deleted" for a removed row.  Ids are generated by the database: a
\* request names ids that have been generated, or "tx", which never is.

BulkTaskIds == {"t1", "t2", "t3"}
Companies == {"c1", "c2"}

TaskExists(tasks, id) == id \in DOMAIN tasks /\ tasks[id].st = "row"

InitBulk ==
    /\ QuietReorder
    /\ query = NoQuery
    /\ select = NoSelect
    /\ backup = [pc |-> "none"]
    /\ auth = [pc |-> "none"]
    /\ \E c1 \in Companies, c2 \in Companies :
          bulk = [pc |-> "idle",
                  tasks |-> ("t1" :> [st |-> "row", companyId |-> c1, workspaceId |-> "w1"]
                             @@ "t2" :> [st |-> "row", companyId |-> c2, workspaceId |-> "w1"]
                             @@ "t3" :> [st |-> "unused"])]

\* prisma.task.findMany({ where: { id: { in: taskIds }, companyId } })
ExistTasks_AnyCompany(tasks, taskIds, companyId) ==
    {id \in taskIds : TaskExists(tasks, id)}
ExistTasks(tasks, taskIds, companyId) ==
    {id \in taskIds : TaskExists(tasks, id) /\ tasks[id].companyId = companyId}

\* bulkDelete(taskIds, companyId) up to taskIds = existTasks.map(task => task.id)
TaskRepository_bulkDelete ==
    /\ bulk.pc = "idle"
    /\ \E taskIds \in SUBSET ({id \in BulkTaskIds : bulk.tasks[id].st # "unused"} \cup {"tx"}),
          companyId \in Companies :
          bulk' = [pc |-> "found", tasks |-> bulk.tasks,
                   req |-> [taskIds |-> taskIds, companyId |-> companyId],
                   atLookup |-> bulk.tasks,
                   taskIds |-> ExistTasks(bulk.tasks, taskIds, companyId)]
    /\ UNCHANGED <<db, call, commitOrder, query, select, backup, auth>>

\* prisma.task.deleteMany({ where: { id: { in: taskIds } } }): bulk.deleted
\* keeps the rows it removed.
TaskRepository_deleteMany ==
    /\ bulk.pc = "found"
    /\ LET hit == {id \in bulk.taskIds : TaskExists(bulk.tasks, id)} IN
       bulk' = [pc |-> "done", req |-> bulk.req, atLookup |-> bulk.atLookup,
                taskIds |-> bulk.taskIds,
                deleted |-> {[id |-> id, row |-> bulk.tasks[id]] : id \in hit},
                tasks |-> [id \in BulkTaskIds |->
                             IF id \in hit THEN [st |-> "deleted"] ELSE bulk.tasks[id]]]
    /\ UNCHANGED <<db, call, commitOrder, query, select, backup, auth>>

\* createTask connects the new task to the company of the request; its id is
\* generated by the database.
TaskRepository_createTask ==
    /\ bulk.pc \in {"idle", "found"}
    /\ \E id \in BulkTaskIds, companyId \in Companies, workspaceId \in {"w1", "w2"} :
          /\ bulk.tasks[id].st = "unused"
          /\ bulk' = [bulk EXCEPT !.tasks[id] =
                        [st |-> "row", companyId |-> companyId, workspaceId |-> workspaceId]]
    /\ UNCHANGED <<db, call, commitOrder, query, select, backup, auth>>

\* move connects the task to another sheet and workspace; companyId is not
\* in its data.
TaskRepository_move ==
    /\ bulk.pc \in {"idle", "found"}
    /\ \E id \in BulkTaskIds, workspaceId \in {"w1", "w2"} :
          /\ TaskExists(bulk.tasks, id)
          /\ bulk.tasks[id].workspaceId # workspaceId
          /\ bulk' = [bulk EXCEPT !.tasks[id].workspaceId = workspaceId]
    /\ UNCHANGED <<db, call, commitOrder, query, select, backup, auth>>

\* prisma.task.delete({ where: { id: taskId } })
TaskRepository_deleteTask ==
    /\ bulk.pc \in {"idle", "found"}
    /\ \E id \in BulkTaskIds :
          /\ TaskExists(bulk.tasks, id)
          /\ bulk' = [bulk EXCEPT !.tasks[id] = [st |-> "deleted"]]
    /\ UNCHANGED <<db, call, commitOrder, query, select, backup, auth>>

NextBulk ==
    \/ TaskRepository_bulkDelete
    \/ TaskRepository_deleteMany
    \/ TaskRepository_createTask
    \/ TaskRepository_move
    \/ TaskRepository_deleteTask

SpecBulk == InitBulk /\ [][NextBulk]_vars

\* C27: bulkDelete removes only tasks whose id is in taskIds and whose
\* companyId is the given one, and every such task that the lookup saw is
\* gone when the call has ended, whatever create, move and delete calls ran
\* between the lookup and the delete.
C27_BulkDeleteConfinedToCompany ==
    bulk.pc = "done"
    => /\ \A d \in bulk.deleted :
             /\ d.id \in bulk.req.taskIds
             /\ d.row.companyId = bulk.req.companyId
       /\ \A id \in BulkTaskIds :
             (/\ id \in bulk.req.taskIds
              /\ TaskExists(bulk.atLookup, id)
              /\ bulk.atLookup[id].companyId = bulk.req.companyId)
             => ~TaskExists(bulk.tasks, id)

\* A listed task of the other company survived, a listed task of the given
\* company was deleted, and a move ran between the lookup and the delete.
C27_Witness ==
    /\ bulk.pc = "done"
    /\ \E id \in bulk.req.taskIds :
          TaskExists(bulk.tasks, id) /\ bulk.tasks[id].companyId # bulk.req.companyId
    /\ \E d \in bulk.deleted : d.row # bulk.atLookup[d.id]

====
